---- MODULE Spec2Model ----
(***************************************************************************)
(* sensu-prometheus-metrics-checks (src/main.go).                          *)
(*                                                                         *)
(* src/main.go holds two variants of the same check plugin:                *)
(*   "zero": lines 1-165, thresholds left at Go's zero value mean unset;   *)
(*   "pi"  : lines 167-335, thresholds default to math.Pi, meaning unset.  *)
(* One run of the plugin is: the plugin harness fills `plugin` from the    *)
(* command line, calls checkArgs, and, when that returns no error, calls   *)
(* executeCheck, which calls QueryExporter once and scans the samples.     *)
(*                                                                         *)
(* float64 values are modelled as integers counting hundredths (-100 is    *)
(* -1.0, 400 is 4.0); math.Pi is the point MathPi of that ordered domain.  *)
(***************************************************************************)
EXTENDS Integers, Sequences, FiniteSets, TLC

VARIABLES
    variant,        \* which of the two variants of main.go is running
    args,           \* what the operator passed on the command line
    plugin,         \* the Config singleton, as filled by the harness
    pc,             \* position of the run
    validationErr,  \* checkArgs returned a non-nil error
    state,          \* exit state returned to the harness ("none" until then)
    client,         \* TLS configuration of the http.Client that was built
    requests,       \* number of HTTP requests handed to client.Do
    response,       \* what the exporter side answered to the request
    samples,        \* the model.Vector QueryExporter returned
    fetchErr,       \* QueryExporter returned a non-nil error
    output,         \* lines printed to standard output, in order
    examined,       \* number of loop iterations executeCheck ran
    evaluated       \* indexes of the samples that passed the name test

vars == <<variant, args, plugin, pc, validationErr, state, client, requests,
          response, samples, fetchErr, output, examined, evaluated>>

---------------------------------------------------------------------------
(* Bounds of the model *)

\* most samples in one exposition body, over all its families
MaxSamples == 2

(* Program constants *)

\* math.Pi in hundredths
MathPi == 314
\* http.StatusOK
StatusOK == 200

CheckStateOK == "OK"
CheckStateCritical == "CRITICAL"
CheckStateUnknown == "UNKNOWN"

Variants == {"zero", "pi"}

---------------------------------------------------------------------------
(* Input domains *)

FamilyNames == {"m", "n"}
\* label names in sorted order, as sort.Strings orders them
LabelOrder == <<"host">>
LabelValues == {"a"}
SampleVals == {-100, 0, 400}
ThresholdVals == {0, MathPi}

RECURSIVE SeqToSet(_)
SeqToSet(s) == IF s = <<>> THEN {} ELSE {Head(s)} \cup SeqToSet(Tail(s))

\* a label set: a map from some label names to values (without __name__)
LabelSets == UNION {[D -> LabelValues] : D \in SUBSET SeqToSet(LabelOrder)}

\* one sample line of a family block: labels and value
RawSamples == [labels : LabelSets, value : SampleVals]

SeqsUpTo(S, n) == UNION {[1..k -> S] : k \in 0..n}

RECURSIVE SumLen(_)
SumLen(ss) == IF ss = <<>> THEN 0 ELSE Len(Head(ss)) + SumLen(Tail(ss))

Injective(s) == \A i, j \in 1..Len(s) : s[i] = s[j] => i = j

\* the family names of a body, in the order the blocks appear: all distinct
NameSeqs == {ns \in SeqsUpTo(FamilyNames, Cardinality(FamilyNames)) : Injective(ns)}

\* an exposition body: its family blocks in order of appearance
BodiesFor(ns) ==
    {[i \in 1..Len(ns) |-> [name |-> ns[i], samples |-> ss[i]]] :
        ss \in {t \in [1..Len(ns) -> SeqsUpTo(RawSamples, MaxSamples)] :
                    SumLen(t) <= MaxSamples}}

Bodies == UNION {BodiesFor(ns) : ns \in NameSeqs}

\* a float64 option as the operator passed it: absent or present with a value
NoArg == [set |-> FALSE, v |-> 0]
ThresholdArgs == {NoArg} \cup {[set |-> TRUE, v |-> x] : x \in ThresholdVals}

\* values of --metric: absent, a bare name, a full rendering with labels
MetricArgs == {"", "m", "m{host=\"a\"}"}

ArgSets == [metric : MetricArgs, min : ThresholdArgs, max : ThresholdArgs,
            value : ThresholdArgs]

\* what the request meets: an unusable URL, a transport failure, or an HTTP
\* answer with a status and a body that is well-formed exposition text or not
Responses ==
    {[urlOK |-> FALSE, transportOK |-> FALSE, status |-> 0, wellFormed |-> FALSE, body |-> <<>>],
     [urlOK |-> TRUE, transportOK |-> FALSE, status |-> 0, wellFormed |-> FALSE, body |-> <<>>],
     [urlOK |-> TRUE, transportOK |-> TRUE, status |-> 500, wellFormed |-> FALSE, body |-> <<>>],
     [urlOK |-> TRUE, transportOK |-> TRUE, status |-> 500, wellFormed |-> TRUE, body |-> <<>>],
     [urlOK |-> TRUE, transportOK |-> TRUE, status |-> StatusOK, wellFormed |-> FALSE, body |-> <<>>]}
    \cup {[urlOK |-> TRUE, transportOK |-> TRUE, status |-> StatusOK, wellFormed |-> TRUE, body |-> b] :
            b \in Bodies}

NoResponse ==
    [urlOK |-> FALSE, transportOK |-> FALSE, status |-> 0, wellFormed |-> FALSE, body |-> <<>>]

---------------------------------------------------------------------------
(* Configuration: options table and checkArgs *)

\* the value a float64 option has when the operator did not pass it
Default(v) == IF v = "zero" THEN 0 ELSE MathPi

\* the harness stores the operator's value, or the option's default
OptionValue(v, arg) == IF arg.set THEN arg.v ELSE Default(v)

\* the sentinel the variant's code compares against
Sentinel == IF variant = "zero" THEN 0 ELSE MathPi

\* checkArgs: TRUE when it returns CheckStateUnknown with an error
CheckArgsRejects ==
    \/ plugin.Metric = ""
    \/ IF variant = "zero"
       THEN plugin.Value # 0 /\ plugin.Max # 0 /\ plugin.Min # 0
       ELSE plugin.Value = MathPi /\ plugin.Max = MathPi /\ plugin.Min = MathPi

---------------------------------------------------------------------------
(* QueryExporter *)

\* the tls.Config the client is built with
TLSClientConfig == [InsecureSkipVerify |-> TRUE]

\* the status test left out: any answer is parsed
StatusIgnored(status) == TRUE

StatusIsOK(status) == status = StatusOK

\* QueryExporter returns (nil, err): request construction, transport,
\* status or parse failure
QueryFails(r) ==
    \/ ~r.urlOK
    \/ ~r.transportOK
    \/ ~StatusIsOK(r.status)
    \/ ~r.wellFormed

\* expfmt.ExtractSamples on one family: one sample per line, the family's
\* name stored under __name__ next to the line's labels
ExtractSamples(family) ==
    [i \in 1..Len(family.samples) |->
        [name |-> family.name,
         labels |-> family.samples[i].labels,
         value |-> family.samples[i].value]]

\* TextToMetricFamilies returns a Go map keyed by family name; `range` over
\* a map visits its entries in an unspecified order: any permutation
RangeOrders(n) == {p \in [1..n -> 1..n] : Injective(p)}

RECURSIVE AppendFamilies(_, _)
AppendFamilies(body, order) ==
    IF order = <<>> THEN <<>>
    ELSE ExtractSamples(body[Head(order)]) \o AppendFamilies(body, Tail(order))

---------------------------------------------------------------------------
(* executeCheck *)

\* model.Metric.String(): the bare name when there are no other labels,
\* otherwise name{l1="v1", l2="v2"} with the labels sorted
RECURSIVE JoinLabels(_, _)
JoinLabels(order, labels) ==
    IF order = <<>> THEN ""
    ELSE LET l == Head(order)
             rest == JoinLabels(Tail(order), labels)
         IN IF l \in DOMAIN labels
            THEN (l \o "=\"" \o labels[l] \o "\"")
                    \o (IF rest = "" THEN "" ELSE ", " \o rest)
            ELSE rest

MetricString(s) ==
    IF DOMAIN s.labels = {} THEN s.name
    ELSE s.name \o "{" \o JoinLabels(LabelOrder, s.labels) \o "}"

\* the name test left out: every sample is checked
SelectedAnyName(s) == TRUE

\* the test that admits a sample to the threshold checks
Selected(s) == MetricString(s) = plugin.Metric

Line(kind, value, bound) == [kind |-> kind, value |-> value, bound |-> bound]

\* the loop over the samples, from index i on; out and ev are the lines
\* printed and the samples admitted so far
RECURSIVE EvalLoop(_, _, _)
EvalLoop(i, out, ev) ==
    IF i > Len(samples)
    THEN [state |-> CheckStateOK, output |-> out, examined |-> i - 1, evaluated |-> ev]
    ELSE LET s == samples[i] IN
         IF Selected(s)
         THEN IF plugin.Value # Sentinel /\ s.value # plugin.Value
              THEN [state |-> CheckStateCritical,
                    output |-> Append(out, Line("value", s.value, plugin.Value)),
                    examined |-> i, evaluated |-> ev \cup {i}]
              ELSE IF plugin.Min # Sentinel /\ s.value < plugin.Min
              THEN [state |-> CheckStateCritical,
                    output |-> Append(out, Line("min", s.value, plugin.Min)),
                    examined |-> i, evaluated |-> ev \cup {i}]
              ELSE IF plugin.Max # Sentinel /\ s.value > plugin.Max
              THEN [state |-> CheckStateCritical,
                    output |-> Append(out, Line("max", s.value, plugin.Max)),
                    examined |-> i, evaluated |-> ev \cup {i}]
              ELSE EvalLoop(i + 1, Append(out, Line("info", s.value, 0)), ev \cup {i})
         ELSE EvalLoop(i + 1, out, ev)

---------------------------------------------------------------------------
(* The run *)

Init ==
    /\ variant \in Variants
    /\ args \in ArgSets
    /\ plugin = [Metric |-> args.metric,
                 Min |-> OptionValue(variant, args.min),
                 Max |-> OptionValue(variant, args.max),
                 Value |-> OptionValue(variant, args.value)]
    /\ pc = "checkArgs"
    /\ validationErr = FALSE
    /\ state = "none"
    /\ client = [InsecureSkipVerify |-> FALSE]
    /\ requests = 0
    /\ response = NoResponse
    /\ samples = <<>>
    /\ fetchErr = FALSE
    /\ output = <<>>
    /\ examined = 0
    /\ evaluated = {}

\* the harness calls checkArgs; an error ends the run before executeCheck
CheckArgs ==
    /\ pc = "checkArgs"
    /\ validationErr' = CheckArgsRejects
    /\ state' = IF CheckArgsRejects THEN CheckStateUnknown ELSE state
    /\ pc' = IF CheckArgsRejects THEN "done" ELSE "executeCheck"
    /\ UNCHANGED <<variant, args, plugin, client, requests, response, samples,
                   fetchErr, output, examined, evaluated>>

\* executeCheck calls QueryExporter(plugin.Url)
QueryExporter ==
    /\ pc = "executeCheck"
    /\ \E r \in Responses :
         \E order \in RangeOrders(Len(r.body)) :
            /\ response' = r
            /\ client' = TLSClientConfig
            /\ requests' = IF r.urlOK THEN requests + 1 ELSE requests
            /\ fetchErr' = QueryFails(r)
            /\ samples' = IF QueryFails(r) THEN <<>> ELSE AppendFamilies(r.body, order)
    /\ pc' = "fetched"
    /\ UNCHANGED <<variant, args, plugin, validationErr, state, output,
                   examined, evaluated>>

\* the rest of executeCheck: the error return, or the scan of the samples
ExecuteCheck ==
    /\ pc = "fetched"
    /\ IF fetchErr
       THEN /\ output' = <<Line("failed", 0, 0)>>
            /\ state' = CheckStateUnknown
            /\ UNCHANGED <<examined, evaluated>>
       ELSE LET r == EvalLoop(1, <<>>, {}) IN
            /\ output' = r.output
            /\ state' = r.state
            /\ examined' = r.examined
            /\ evaluated' = r.evaluated
    /\ pc' = "done"
    /\ UNCHANGED <<variant, args, plugin, validationErr, client, requests,
                   response, samples, fetchErr>>

Next == CheckArgs \/ QueryExporter \/ ExecuteCheck

Spec == Init /\ [][Next]_vars

TypeOK ==
    /\ variant \in Variants
    /\ pc \in {"checkArgs", "executeCheck", "fetched", "done"}
    /\ state \in {"none", CheckStateOK, CheckStateCritical, CheckStateUnknown}
    /\ requests \in 0..1

---------------------------------------------------------------------------
(* Vocabulary of the properties *)

\* executeCheck ran its scan: validation passed and the fetch succeeded
EvalDone == pc = "done" /\ ~validationErr /\ ~fetchErr

\* the fetch met a fatal failure
ResponseFailed(r) ==
    ~r.urlOK \/ ~r.transportOK \/ r.status # 200 \/ ~r.wellFormed

\* the sample's rendering equals the configured metric
Matches(s) == MetricString(s) = plugin.Metric

ConditionKinds == {"value", "min", "max"}

\* the conditions sample s violates, among those the code treats as
\* configured (different from the variant's sentinel)
CodeViolated(s) ==
    {k \in ConditionKinds :
        \/ k = "value" /\ plugin.Value # Sentinel /\ s.value # plugin.Value
        \/ k = "min" /\ plugin.Min # Sentinel /\ s.value < plugin.Min
        \/ k = "max" /\ plugin.Max # Sentinel /\ s.value > plugin.Max}

\* the conditions sample s violates, among those the operator set
OperatorViolated(s) ==
    {k \in ConditionKinds :
        \/ k = "value" /\ args.value.set /\ s.value # args.value.v
        \/ k = "min" /\ args.min.set /\ s.value < args.min.v
        \/ k = "max" /\ args.max.set /\ s.value > args.max.v}

OperatorSet(k) ==
    CASE k = "value" -> args.value.set
      [] k = "min" -> args.min.set
      [] k = "max" -> args.max.set

ViolationLines == {j \in 1..Len(output) : output[j].kind \in ConditionKinds}

\* indexes of the matching samples that violate a code-configured condition
ViolatingIdx == {i \in 1..Len(samples) : Matches(samples[i]) /\ CodeViolated(samples[i]) # {}}

Least(S) == CHOOSE x \in S : \A y \in S : x <= y

\* the first violated condition in the order the code tests them
FirstKind(s) ==
    IF "value" \in CodeViolated(s) THEN "value"
    ELSE IF "min" \in CodeViolated(s) THEN "min" ELSE "max"

RECURSIVE SumOver(_, _)
SumOver(S, f) ==
    IF S = {} THEN 0
    ELSE LET x == CHOOSE y \in S : TRUE IN f[x] + SumOver(S \ {x}, f)

\* number of violated (sample, condition) pairs over the matching samples
ViolatedPairs ==
    SumOver({i \in 1..Len(samples) : Matches(samples[i])},
            [i \in 1..Len(samples) |-> Cardinality(CodeViolated(samples[i]))])

\* label filters name:value an operator may ask for
LabelFilters == [name : {"host"}, value : {"a", "b"}]
FilterLists == SeqsUpTo(LabelFilters, 1)

\* number of filters of F the sample's label set matches exactly
MatchCount(F, s) ==
    Cardinality({j \in 1..Len(F) :
        F[j].name \in DOMAIN s.labels /\ s.labels[F[j].name] = F[j].value})

---------------------------------------------------------------------------
(* Properties *)

\* C1: after a successful fetch in which no sample's rendering equals the
\* configured metric, executeCheck returns OK whatever min, max and value
\* are, in both variants: absence of the metric is never a failure. The
\* same holds when the configured metric is a bare metric name and no
\* sample carries it as its __name__.
C1_AbsentMetricIsOK ==
    /\ (EvalDone /\ \A i \in 1..Len(samples) : MetricString(samples[i]) # plugin.Metric)
          => state = CheckStateOK
    /\ (EvalDone /\ plugin.Metric \in FamilyNames
                 /\ \A i \in 1..Len(samples) : samples[i].name # plugin.Metric)
          => state = CheckStateOK

\* C1 witness: samples were fetched, none matches, one of them is below a
\* configured minimum, and the run ended OK.
C1_Witness ==
    /\ EvalDone
    /\ samples # <<>>
    /\ \A i \in 1..Len(samples) : MetricString(samples[i]) # plugin.Metric
    /\ plugin.Min # Sentinel
    /\ \E i \in 1..Len(samples) : samples[i].value < plugin.Min
    /\ state = CheckStateOK

\* C2 (as claimed): after a successful fetch the result is CRITICAL exactly
\* when some eligible sample violates a condition the operator set (exact
\* value differs, below minimum, above maximum), and OK otherwise.
C2_CriticalIffViolation ==
    EvalDone =>
        /\ state \in {CheckStateOK, CheckStateCritical}
        /\ state = CheckStateCritical <=>
              \E i \in 1..Len(samples) :
                  Matches(samples[i]) /\ OperatorViolated(samples[i]) # {}

\* C3 (as claimed): all failures are accumulated: the number of violation
\* diagnostics equals the number of violated (sample, condition) pairs over
\* the eligible samples, and every sample has been examined.
C3_AccumulatesAll ==
    EvalDone =>
        /\ Cardinality(ViolationLines) = ViolatedPairs
        /\ examined = Len(samples)

\* What the scan does instead of accumulating: it stops at the first
\* violation. When no matching sample violates a code-configured condition,
\* every sample is examined, no violation diagnostic is printed and the
\* result is OK. Otherwise the scan ends at the first violating matching
\* sample with exactly one violation diagnostic, for its first violated
\* condition in the order exact value, minimum, maximum, printed last, and
\* the result is CRITICAL.
StopsAtFirstViolation ==
    EvalDone =>
        IF ViolatingIdx = {}
        THEN /\ state = CheckStateOK
             /\ ViolationLines = {}
             /\ examined = Len(samples)
        ELSE LET f == Least(ViolatingIdx) IN
             /\ state = CheckStateCritical
             /\ ViolationLines = {Len(output)}
             /\ output[Len(output)].kind = FirstKind(samples[f])
             /\ output[Len(output)].value = samples[f].value
             /\ examined = f

\* C4 (as claimed): among the samples the scan went through, a sample is
\* checked against the thresholds exactly when its __name__ equals the
\* configured metric, whatever other labels it carries.
C4_EligibleByName ==
    EvalDone =>
        \A i \in 1..examined :
            i \in evaluated <=> samples[i].name = plugin.Metric

\* C5 (as claimed): checkArgs rejects exactly the configurations with an
\* empty metric or with none of min, max, value set by the operator, and a
\* rejected configuration makes no HTTP request.
C5_Validation ==
    pc # "checkArgs" =>
        /\ validationErr <=>
              \/ args.metric = ""
              \/ ~args.min.set /\ ~args.max.set /\ ~args.value.set
        /\ validationErr => requests = 0

\* C6: a fatal fetch failure (request construction, transport, status other
\* than 200, parse error) makes executeCheck return UNKNOWN with no sample
\* examined; at most one request is ever issued; OK or CRITICAL is only
\* produced after an answer with status 200 that parsed.
C6_FetchFailureIsUnknown ==
    /\ requests <= 1
    /\ (pc = "done" /\ ~validationErr /\ ResponseFailed(response)) =>
          /\ state = CheckStateUnknown
          /\ examined = 0
          /\ evaluated = {}
          /\ ViolationLines = {}
    /\ state \in {CheckStateOK, CheckStateCritical} =>
          /\ requests = 1
          /\ ~ResponseFailed(response)

\* C6 witness: the exporter answered 500 to the one request and the run
\* ended UNKNOWN.
C6_Witness ==
    /\ pc = "done"
    /\ ~validationErr
    /\ response.transportOK
    /\ response.status = 500
    /\ response.wellFormed
    /\ requests = 1
    /\ state = CheckStateUnknown

\* C7 (as claimed): whatever label filters are configured, when an eligible
\* sample matches fewer filters than are configured, the result is CRITICAL
\* even if its value satisfies every numeric condition.
C7_LabelMismatchIsCritical ==
    \A F \in FilterLists :
        (EvalDone /\ \E i \in 1..Len(samples) :
                        /\ samples[i].name = plugin.Metric
                        /\ Matches(samples[i])
                        /\ args.max.set
                        /\ plugin.Max # Sentinel
                        /\ samples[i].value <= args.max.v
                        /\ MatchCount(F, samples[i]) < Len(F))
            => state = CheckStateCritical

\* C8 (as claimed): a condition is evaluated exactly when the operator set
\* it: a set bound that a checked sample violates gives CRITICAL whatever
\* its numeric value (0.0 included), and no diagnostic is ever printed for
\* a condition the operator left unset.
C8_SetBoundsEnforced ==
    EvalDone =>
        /\ \A i \in 1..Len(samples) : \A k \in ConditionKinds :
              (Matches(samples[i]) /\ k \in OperatorViolated(samples[i]))
                  => state = CheckStateCritical
        /\ \A j \in ViolationLines : OperatorSet(output[j].kind)

\* C9 (as claimed): no option asks to skip verification, so every request
\* is sent by a client that verifies the server's certificate.
C9_VerifiesByDefault ==
    requests > 0 => ~client.InsecureSkipVerify

\* C10 (as claimed): QueryExporter returns the samples of all families
\* concatenated in the order the families appear in the body.
C10_BodyOrder ==
    (pc \in {"fetched", "done"} /\ ~fetchErr) =>
        samples = AppendFamilies(response.body, [i \in 1..Len(response.body) |-> i])

====
